---------------------------- MODULE Spec2Model ----------------------------
(***************************************************************************)
(* A model of the lesson-plan relay of src/app.py: the POST /generate      *)
(* handler, from the credential check through the prompt's phase budget    *)
(* and the call of the LLM gateway to the normalisation of the model's     *)
(* text into the response.                                                 *)
(*                                                                         *)
(* Text is a sequence of one-character strings, so that Python's strip,    *)
(* startswith, endswith, join and json.loads are computed character by     *)
(* character.  A JSON value is a record [t, v]: t is its Python type       *)
(* ("str", "list", "dict", "null") and v its content (the characters of a  *)
(* string, the elements of a list, the key -> value function of a dict).   *)
(***************************************************************************)
EXTENDS Integers, Sequences, FiniteSets, TLC

VARIABLES
    client,       \* the module-level client: TRUE when genai.Client(...) was built
    pc,           \* where the request is: idle, waiting, done
    request,      \* the POST /generate request being handled
    data,         \* what request.get_json() gave the handler
    user_message, \* the phase durations of the prompt sent to the gateway
    gatewayCalls, \* calls of client.models.generate_content for this request
    response,     \* what the gateway call gave back (or raised)
    raw_output,   \* the handler's local raw_output
    json_string,  \* the handler's local json_string
    ai_json,      \* what json.loads(json_string) gave
    trail,        \* the steps of the handler this request went through
    reply         \* the HTTP response of the request

vars == << client, pc, request, data, user_message, gatewayCalls, response,
           raw_output, json_string, ai_json, trail, reply >>

---------------------------------------------------------------------------
(* Bounds of the model.                                                    *)

MaxDuration == 80
MaxDurStrLen == 2
MaxStrLen == 2
MaxListLen == 2
MaxJunkLen == 2

---------------------------------------------------------------------------
(* Text.                                                                   *)

RECURSIVE SeqsOfLen(_, _)
SeqsOfLen(S, n) ==
    IF n = 0 THEN { <<>> }
    ELSE { Append(s, c) : s \in SeqsOfLen(S, n - 1), c \in S }

SeqsUpTo(S, n) == UNION { SeqsOfLen(S, k) : k \in 0..n }

CharsOf(s) == { s[i] : i \in DOMAIN s }

\* The whitespace str.strip() removes and json.loads skips.
Whitespace == { " ", "\n", "\t", "\r" }

RECURSIVE FirstNotIn(_, _, _)
FirstNotIn(s, i, chars) ==
    IF i > Len(s) THEN i
    ELSE IF s[i] \in chars THEN FirstNotIn(s, i + 1, chars)
    ELSE i

RECURSIVE LastNotIn(_, _, _)
LastNotIn(s, i, chars) ==
    IF i < 1 THEN 0
    ELSE IF s[i] \in chars THEN LastNotIn(s, i - 1, chars)
    ELSE i

\* Python's s.strip(chars): the leading and trailing characters that are in
\* the SET of characters of the argument are removed.
StripChars(s, chars) ==
    LET a == FirstNotIn(s, 1, chars)
        b == LastNotIn(s, Len(s), chars)
    IN  IF a > b THEN <<>> ELSE SubSeq(s, a, b)

\* Python's s.strip().
Strip(s) == StripChars(s, Whitespace)

StartsWith(s, p) == Len(s) >= Len(p) /\ SubSeq(s, 1, Len(p)) = p

EndsWith(s, p) ==
    Len(s) >= Len(p) /\ SubSeq(s, Len(s) - Len(p) + 1, Len(s)) = p

\* The grave accent (U+0060), which a TLA+ string cannot hold: the one
\* character of the model's text that is written by name.
Backtick == "GRAVE"

\* The markdown fence of line 138: three grave accents and json, and three
\* grave accents.
FenceOpener == << Backtick, Backtick, Backtick, "j", "s", "o", "n" >>
FenceCloser == << Backtick, Backtick, Backtick >>

---------------------------------------------------------------------------
(* JSON values.                                                            *)

Str(s) == [t |-> "str", v |-> s]
List(l) == [t |-> "list", v |-> l]
Dict(f) == [t |-> "dict", v |-> f]
Null == [t |-> "null", v |-> <<>>]

NoKeys == [k \in {} |-> Null]

KPhase1 == << "p", "h", "a", "s", "e", "1" >>
KPhase2 == << "p", "h", "a", "s", "e", "2" >>
KPhase3 == << "p", "h", "a", "s", "e", "3" >>
KAssessment == << "a", "s", "s", "e", "s", "s", "m", "e", "n", "t" >>

\* The keys the shape repair walks, in its order.
RepairKeys == << KPhase1, KPhase2, KAssessment, KPhase3 >>

\* d with key k set to value x (d[k] = x in Python).
DictSet(d, k, x) ==
    [kk \in (DOMAIN d) \cup {k} |-> IF kk = k THEN x ELSE d[kk]]

\* d without key k (del d[k]).
DictDel(d, k) == [kk \in (DOMAIN d) \ {k} |-> d[kk]]

\* d.get(k, default).
DictGet(d, k, default) == IF k \in DOMAIN d THEN d[k] ELSE default

\* Python's truth value of a JSON value.
Truthy(x) ==
    CASE x.t = "str" -> x.v # <<>>
      [] x.t = "list" -> x.v # <<>>
      [] x.t = "dict" -> DOMAIN x.v # {}
      [] OTHER -> FALSE

---------------------------------------------------------------------------
(* json.loads, for the JSON made of objects, arrays, strings and null.     *)
(* A parse step gives [ok, val, next]: whether a value was read, the       *)
(* value, and the position after it.                                       *)

ParseFail == [ok |-> FALSE, val |-> Null, next |-> 0]
ParseOk(x, n) == [ok |-> TRUE, val |-> x, next |-> n]

SkipWs(s, i) == FirstNotIn(s, i, Whitespace)

\* The characters a backslash escape stands for.
Unescape(c) ==
    CASE c = "n" -> "\n"
      [] c = "t" -> "\t"
      [] c = "r" -> "\r"
      [] OTHER -> c

EscapeChars == { "n", "t", "r", "\"", "\\", "/" }

\* The characters of a string literal from position i (after the opening
\* quote) to its closing quote; a raw control character is refused.
RECURSIVE ScanString(_, _, _)
ScanString(s, i, acc) ==
    IF i > Len(s) THEN ParseFail
    ELSE IF s[i] = "\"" THEN ParseOk(Str(acc), i + 1)
    ELSE IF s[i] = "\\" THEN
        IF i + 1 <= Len(s) /\ s[i + 1] \in EscapeChars
        THEN ScanString(s, i + 2, Append(acc, Unescape(s[i + 1])))
        ELSE ParseFail
    ELSE IF s[i] \in { "\n", "\t", "\r" } THEN ParseFail
    ELSE ScanString(s, i + 1, Append(acc, s[i]))

RECURSIVE ParseValue(_, _)
RECURSIVE ParseElems(_, _, _)
RECURSIVE ParseMembers(_, _, _)

\* The elements of an array after its first, from position i (after an
\* element): a comma and another element, or the closing bracket.
ParseElems(s, i, acc) ==
    LET j == SkipWs(s, i) IN
    IF j > Len(s) THEN ParseFail
    ELSE IF s[j] = "]" THEN ParseOk(List(acc), j + 1)
    ELSE IF s[j] = "," THEN
        LET r == ParseValue(s, SkipWs(s, j + 1)) IN
        IF r.ok THEN ParseElems(s, r.next, Append(acc, r.val)) ELSE ParseFail
    ELSE ParseFail

\* One "key": value member at position i (a quote is expected there).
ParseMember(s, i) ==
    IF i > Len(s) \/ s[i] # "\"" THEN ParseFail
    ELSE
        LET k == ScanString(s, i + 1, <<>>) IN
        IF ~k.ok THEN ParseFail
        ELSE
            LET c == SkipWs(s, k.next) IN
            IF c > Len(s) \/ s[c] # ":" THEN ParseFail
            ELSE
                LET r == ParseValue(s, SkipWs(s, c + 1)) IN
                IF r.ok THEN ParseOk(<< k.val.v, r.val >>, r.next)
                ELSE ParseFail

\* The members of an object after its first, from position i: a repeated
\* key keeps its last value.
ParseMembers(s, i, acc) ==
    LET j == SkipWs(s, i) IN
    IF j > Len(s) THEN ParseFail
    ELSE IF s[j] = "}" THEN ParseOk(Dict(acc), j + 1)
    ELSE IF s[j] = "," THEN
        LET m == ParseMember(s, SkipWs(s, j + 1)) IN
        IF m.ok THEN ParseMembers(s, m.next, DictSet(acc, m.val[1], m.val[2]))
        ELSE ParseFail
    ELSE ParseFail

ParseValue(s, i) ==
    IF i > Len(s) THEN ParseFail
    ELSE IF s[i] = "\"" THEN ScanString(s, i + 1, <<>>)
    ELSE IF s[i] = "[" THEN
        LET j == SkipWs(s, i + 1) IN
        IF j <= Len(s) /\ s[j] = "]" THEN ParseOk(List(<<>>), j + 1)
        ELSE
            LET r == ParseValue(s, j) IN
            IF r.ok THEN ParseElems(s, r.next, << r.val >>) ELSE ParseFail
    ELSE IF s[i] = "{" THEN
        LET j == SkipWs(s, i + 1) IN
        IF j <= Len(s) /\ s[j] = "}" THEN ParseOk(Dict(NoKeys), j + 1)
        ELSE
            LET m == ParseMember(s, j) IN
            IF m.ok
            THEN ParseMembers(s, m.next, DictSet(NoKeys, m.val[1], m.val[2]))
            ELSE ParseFail
    ELSE IF i + 3 <= Len(s) /\ SubSeq(s, i, i + 3) = << "n", "u", "l", "l" >>
        THEN ParseOk(Null, i + 4)
    ELSE ParseFail

\* json.loads(s): [ok, val]; ok is FALSE where Python raises JSONDecodeError
\* (no value, or characters other than whitespace after the value).
JsonLoads(s) ==
    LET r == ParseValue(s, SkipWs(s, 1)) IN
    IF r.ok /\ SkipWs(s, r.next) = Len(s) + 1
    THEN [ok |-> TRUE, val |-> r.val]
    ELSE [ok |-> FALSE, val |-> Null]

---------------------------------------------------------------------------
(* The request: its JSON payload and the duration field of the payload.    *)

DefaultDuration == 70
PhaseCap == 10

DigitValue ==
    [c \in { "0", "1", "2", "3", "4", "5", "6", "7", "8", "9" } |->
        CASE c = "0" -> 0 [] c = "1" -> 1 [] c = "2" -> 2 [] c = "3" -> 3
          [] c = "4" -> 4 [] c = "5" -> 5 [] c = "6" -> 6 [] c = "7" -> 7
          [] c = "8" -> 8 [] OTHER -> 9]

RECURSIVE DigitsValue(_)
DigitsValue(s) ==
    IF s = <<>> THEN 0
    ELSE 10 * DigitsValue(SubSeq(s, 1, Len(s) - 1)) + DigitValue[s[Len(s)]]

\* int(s) of a Python string: whitespace around it is dropped, then an
\* optional sign and at least one digit; anything else raises ValueError.
IntOfStr(s) ==
    LET t == Strip(s)
        signed == t # <<>> /\ t[1] \in { "-", "+" }
        digits == IF signed THEN Tail(t) ELSE t
    IN  IF digits # <<>> /\ CharsOf(digits) \subseteq DOMAIN DigitValue
        THEN [ok |-> TRUE,
              n |-> IF signed /\ t[1] = "-" THEN 0 - DigitsValue(digits)
                    ELSE DigitsValue(digits)]
        ELSE [ok |-> FALSE, n |-> 0]

DurAbsent == [t |-> "absent", n |-> 0, s |-> <<>>]
DurNull == [t |-> "null", n |-> 0, s |-> <<>>]
DurInt(n) == [t |-> "int", n |-> n, s |-> <<>>]
DurStr(s) == [t |-> "str", n |-> 0, s |-> s]

\* int(data.get("duration", 70)) of line 55: [ok, n], ok FALSE where int()
\* raises (ValueError for a string that is no integer, TypeError for null).
CoerceDuration(d) ==
    CASE d.t = "absent" -> [ok |-> TRUE, n |-> DefaultDuration]
      [] d.t = "int" -> [ok |-> TRUE, n |-> d.n]
      [] d.t = "str" -> IntOfStr(d.s)
      [] OTHER -> [ok |-> FALSE, n |-> 0]

Min(a, b) == IF a <= b THEN a ELSE b

\* int(total * 0.15): the binary64 product truncated toward zero, which is
\* the exact 15 * total / 100 truncated toward zero for every total of
\* magnitude below 100000.
ShareOf(total) ==
    IF total >= 0 THEN (15 * total) \div 100
    ELSE 0 - ((15 * (0 - total)) \div 100)

\* Lines 60-62: the minutes of the three phases.
PhaseBudgetUncapped(total) ==
    LET p1 == ShareOf(total)
        p3 == ShareOf(total)
    IN  [phase1 |-> p1, phase2 |-> total - (p1 + p3), phase3 |-> p3]

PhaseBudget(total) ==
    LET p1 == Min(PhaseCap, ShareOf(total))
        p3 == Min(PhaseCap, ShareOf(total))
    IN  [phase1 |-> p1, phase2 |-> total - (p1 + p3), phase3 |-> p3]

NoBudget == [phase1 |-> 0, phase2 |-> 0, phase3 |-> 0]

NoRequest == [payload |-> "none", duration |-> DurAbsent]

DurationStrChars == { "4", "0", "-", "x" }

Durations ==
    { DurAbsent, DurNull }
        \cup { DurInt(n) : n \in 0..MaxDuration }
        \cup { DurStr(s) : s \in SeqsUpTo(DurationStrChars, MaxDurStrLen) }

\* The requests POST /generate is given: a JSON object (with its duration
\* field), the JSON null, a body that is not JSON, or no JSON body at all.
Requests ==
    { [payload |-> "object", duration |-> d] : d \in Durations }
        \cup { [payload |-> p, duration |-> DurAbsent] :
                 p \in { "null", "malformed", "absent" } }

---------------------------------------------------------------------------
(* The HTTP response.                                                      *)

Reply(status, kind, content, details, json) ==
    [status |-> status, kind |-> kind, content |-> content,
     details |-> details, json |-> json]

NoReply == Reply(0, "none", <<>>, "", Null)

\* Line 44.
CredentialMissing == Reply(500, "CredentialMissing", <<>>, "", Null)

\* An exception the handler does not catch (lines 46-62 are outside its
\* try): the framework answers 500.
InternalServerError == Reply(500, "InternalServerError", <<>>, "", Null)

\* request.get_json() refusing the body (400 for a body that is no JSON,
\* 415 for a request with no JSON content type): the framework answers
\* with its own client error.
FrameworkRefusal(status) == Reply(status, "FrameworkRefusal", <<>>, "", Null)

\* Lines 128-131.
BlockedOrEmpty(finish_reason) ==
    Reply(400, "BlockedOrEmpty", <<>>, finish_reason, Null)

\* Lines 174-177.
InvalidJsonOfStripped(raw, stripped) == Reply(500, "InvalidJson", stripped, "", Null)

InvalidJson(raw, stripped) == Reply(500, "InvalidJson", raw, "", Null)

\* Line 169.
PrimaryContentEmpty == Reply(500, "PrimaryContentEmpty", <<>>, "", Null)

\* Line 180.
GatewayApiError == Reply(500, "GeminiApiError", <<>>, "", Null)

\* Line 182.
UnexpectedError == Reply(500, "UnexpectedError", <<>>, "", Null)

\* Line 171.
Success(d) == Reply(200, "Success", <<>>, "", Dict(d))

---------------------------------------------------------------------------
(* The gateway: what client.models.generate_content gives back.            *)

\* json.dumps of a string: its characters between quotes, escaped.
RECURSIVE EscapeText(_)
EscapeText(s) ==
    IF s = <<>> THEN <<>>
    ELSE (CASE s[1] = "\n" -> << "\\", "n" >>
            [] s[1] = "\t" -> << "\\", "t" >>
            [] s[1] = "\r" -> << "\\", "r" >>
            [] s[1] = "\"" -> << "\\", "\"" >>
            [] s[1] = "\\" -> << "\\", "\\" >>
            [] OTHER -> << s[1] >>) \o EscapeText(Tail(s))

Quoted(s) == << "\"" >> \o EscapeText(s) \o << "\"" >>

\* The text of a JSON value, the members of an object in the order of
\* keys (the keys absent from the object skipped).
RECURSIVE Dumps(_, _)
RECURSIVE DumpElems(_, _)
RECURSIVE DumpMembers(_, _, _, _)

DumpElems(l, keys) ==
    IF l = <<>> THEN <<>>
    ELSE Dumps(l[1], keys)
            \o (IF Len(l) > 1 THEN << "," >> ELSE <<>>)
            \o DumpElems(Tail(l), keys)

DumpMembers(d, keys, i, first) ==
    IF i > Len(keys) THEN <<>>
    ELSE IF keys[i] \in DOMAIN d
        THEN (IF first THEN <<>> ELSE << "," >>)
                \o Quoted(keys[i]) \o << ":" >> \o Dumps(d[keys[i]], keys)
                \o DumpMembers(d, keys, i + 1, FALSE)
        ELSE DumpMembers(d, keys, i + 1, first)

Dumps(x, keys) ==
    CASE x.t = "str" -> Quoted(x.v)
      [] x.t = "list" -> << "[" >> \o DumpElems(x.v, keys) \o << "]" >>
      [] x.t = "dict" ->
            << "{" >> \o DumpMembers(x.v, keys, 1, TRUE) \o << "}" >>
      [] OTHER -> << "n", "u", "l", "l" >>

\* The contents the model writes: short strings, lists of short strings
\* (a null among them at times), and null.
ContentChars == { "a", " " }

ContentStrings ==
    { Str(s) : s \in SeqsUpTo(ContentChars, MaxStrLen) }
        \cup { Str(<< "a", "\n", "b" >>) }

ListElements == { Str(<< "a" >>), Str(<<>>), Null }

ContentLists == { List(l) : l \in SeqsUpTo(ListElements, MaxListLen) }

Absent == [t |-> "absent", v |-> <<>>]

ContentValues == ContentStrings \cup ContentLists \cup { Null, Absent }

\* What the model writes for phase1 and phase3.
OtherContents ==
    { << Absent, Absent >>,
      << Str(<< "x" >>), List(<< Str(<< "y" >>), Str(<< "z" >>) >>) >>,
      << List(<< Str(<< "x" >>), Str(<< "y" >>) >>), Str(<< "z" >>) >>,
      << List(<< Str(<< "x" >>), Null >>), Absent >> }

\* The object with the given contents under the four keys, a key whose
\* content is Absent left out.
ModelObject(p1, p2, as, p3) ==
    LET all == (KPhase1 :> p1) @@ (KPhase2 :> p2)
                   @@ (KAssessment :> as) @@ (KPhase3 :> p3)
    IN  Dict([k \in { kk \in DOMAIN all : all[kk] # Absent } |-> all[k]])

\* The object of the merge example: phase2 ["a", "b"], assessment "q1".
MergeExample ==
    ModelObject(Str(<< "x" >>), List(<< Str(<< "a" >>), Str(<< "b" >>) >>),
                Str(<< "q", "1" >>), Str(<< "y" >>))

\* A few of the contents, for the objects whose phase1 and phase3 vary and
\* for the texts that are fenced or padded.
FewContents ==
    { Absent, Str(<< "a" >>), Str(<<>>), Str(<< " ", "a" >>),
      List(<< Str(<< "a" >>), Str(<< "a" >>) >>) }

\* The objects whose phase1 and phase3 vary, and the merge example.
VariedObjects ==
    { ModelObject(o[1], p2, as, o[2]) :
        o \in OtherContents, p2 \in FewContents, as \in FewContents }
        \cup { MergeExample }

\* Every phase2 with every assessment; phase1 and phase3 with a few of them.
ModelObjects ==
    { ModelObject(Absent, p2, as, Absent) :
        p2 \in ContentValues, as \in ContentValues }
        \cup VariedObjects

\* How the model presents its JSON: bare, inside a markdown fence, or with
\* whitespace around it.
Presentations == { "bare", "fenced", "padded" }

Present(how, text) ==
    CASE how = "fenced" ->
            FenceOpener \o << "\n" >> \o text \o << "\n" >> \o FenceCloser
      [] how = "padded" -> << " " >> \o text \o << "\n" >>
      [] OTHER -> text

ObjectTexts ==
    { Dumps(o, RepairKeys) : o \in ModelObjects }
        \cup { Present(how, Dumps(o, RepairKeys)) :
                  how \in Presentations, o \in VariedObjects }

\* Text that is no JSON object: a few characters, fenced or not.
JunkChars == { "n", "{", "}", " ", Backtick }

JunkBodies ==
    SeqsUpTo(JunkChars, MaxJunkLen) \cup { << "n", "u", "l", "l" >> }

JunkTexts ==
    { pre \o body \o post :
        pre \in { <<>>, FenceOpener }, body \in JunkBodies,
        post \in { <<>>, FenceCloser } }

ModelTexts == ObjectTexts \cup JunkTexts

FinishReasons == { "STOP", "SAFETY", "RECITATION", "MAX_TOKENS", "OTHER" }

\* response.text (has FALSE: None) and response.candidates (the finish
\* reason names of the candidates; none at all when the prompt was blocked).
Returned(has, text, candidates) ==
    [outcome |-> "returned", has |-> has, text |-> text,
     candidates |-> candidates]

Raised(what) ==
    [outcome |-> what, has |-> FALSE, text |-> <<>>, candidates |-> <<>>]

NoResponse == Raised("none")

GatewayResponses ==
    { Returned(TRUE, t, << "STOP" >>) : t \in ModelTexts \ { <<>> } }
        \cup { Returned(has, <<>>, c) :
                 has \in BOOLEAN,
                 c \in { <<>> } \cup { << r >> : r \in FinishReasons } }
        \cup { Raised("APIError"), Raised("Exception") }

---------------------------------------------------------------------------
(* The normalisation of the model's text, lines 126-177.                   *)

\* Line 126: not response.text.
IsBlockedOrEmptyNoneOnly(r) == ~r.has

IsBlockedOrEmpty(r) == ~r.has \/ r.text = <<>>

\* Line 127.
FinishReasonOf(r) ==
    IF r.candidates # <<>> THEN r.candidates[1] ELSE "UNKNOWN"

\* Line 138.
IsFenced(raw) == StartsWith(raw, FenceOpener) /\ EndsWith(raw, FenceCloser)

\* Lines 138-141: strip("```json"), strip("```") and strip() of fenced text.
FenceStrip(raw) ==
    IF IsFenced(raw)
    THEN Strip(StripChars(StripChars(raw, CharsOf(FenceOpener)),
                          CharsOf(FenceCloser)))
    ELSE raw

\* "\n".join(l) of a list of strings.
RECURSIVE JoinWith(_, _)
JoinWith(l, sep) ==
    IF l = <<>> THEN <<>>
    ELSE IF Len(l) = 1 THEN l[1].v
    ELSE l[1].v \o sep \o JoinWith(Tail(l), sep)

JoinLines(l) == JoinWith(l, << "\n" >>)

AllStr(l) == \A i \in DOMAIN l : l[i].t = "str"

\* A step of the normalisation gives [raised, d]: whether it raised, and
\* the object after it.
Went(d) == [raised |-> FALSE, d |-> d]
Threw(d) == [raised |-> TRUE, d |-> d]

\* Lines 146-148: each of the four keys that holds a list gets the list
\* joined; join raises TypeError at an element that is no string.
RECURSIVE RepairFrom(_, _)
RepairFrom(d, i) ==
    IF i > Len(RepairKeys) THEN Went(d)
    ELSE
        LET k == RepairKeys[i] IN
        IF k \in DOMAIN d /\ d[k].t = "list"
        THEN IF AllStr(d[k].v)
             THEN RepairFrom(DictSet(d, k, Str(JoinLines(d[k].v))), i + 1)
             ELSE Threw(d)
        ELSE RepairFrom(d, i + 1)

ShapeRepair(d) == RepairFrom(d, 1)

\* Line 158.
Delimiter ==
    << "\n", "\n", "\n", "*", "*", "A", "S", "S", "E", "S", "S", "M", "E",
       "N", "T", "*", "*", "\n", "\n" >>

\* Lines 151-160: a truthy assessment is appended to phase2 under the
\* header; strip raises AttributeError on a content that is no string.
MergeAssessmentUnstripped(d) ==
    LET phase2_content == DictGet(d, KPhase2, Str(<<>>))
        assessment_content == DictGet(d, KAssessment, Str(<<>>))
    IN  IF Truthy(assessment_content)
        THEN IF phase2_content.t = "str" /\ assessment_content.t = "str"
             THEN Went(DictSet(d, KPhase2,
                        Str(phase2_content.v \o Delimiter
                                \o assessment_content.v)))
             ELSE Threw(d)
        ELSE Went(d)

MergeAssessment(d) ==
    LET phase2_content == DictGet(d, KPhase2, Str(<<>>))
        assessment_content == DictGet(d, KAssessment, Str(<<>>))
    IN  IF Truthy(assessment_content)
        THEN IF phase2_content.t = "str" /\ assessment_content.t = "str"
             THEN Went(DictSet(d, KPhase2,
                        Str(Strip(phase2_content.v) \o Delimiter
                                \o Strip(assessment_content.v))))
             ELSE Threw(d)
        ELSE Went(d)

\* Lines 163-164.
RemoveAssessment(d) ==
    IF KAssessment \in DOMAIN d THEN DictDel(d, KAssessment) ELSE d

\* Lines 145-171 on the parsed value x: the reply.  A value that is no
\* dict raises at line 147 or 151.
RepairAndMerge(x) ==
    IF x.t # "dict" THEN UnexpectedError
    ELSE
        LET repaired == ShapeRepair(x.v) IN
        IF repaired.raised THEN UnexpectedError
        ELSE
            LET merged == MergeAssessment(repaired.d) IN
            IF merged.raised THEN UnexpectedError
            ELSE
                LET final == RemoveAssessment(merged.d) IN
                IF ~Truthy(DictGet(final, KPhase2, Null))
                THEN PrimaryContentEmpty
                ELSE Success(final)

NoParse == [ok |-> FALSE, val |-> Null]

\* Lines 126-182 on what the gateway gave: the reply, the locals and the
\* steps gone through.
Normalize(r) ==
    IF r.outcome = "APIError" THEN
        [reply |-> GatewayApiError, raw_output |-> <<>>,
         json_string |-> <<>>, ai_json |-> NoParse, steps |-> {}]
    ELSE IF r.outcome # "returned" THEN
        [reply |-> UnexpectedError, raw_output |-> <<>>,
         json_string |-> <<>>, ai_json |-> NoParse, steps |-> {}]
    ELSE IF IsBlockedOrEmpty(r) THEN
        [reply |-> BlockedOrEmpty(FinishReasonOf(r)), raw_output |-> <<>>,
         json_string |-> <<>>, ai_json |-> NoParse,
         steps |-> { "empty_check" }]
    ELSE
        LET raw == Strip(r.text)
            stripped == FenceStrip(raw)
            parsed == JsonLoads(stripped)
        IN  [reply |-> IF parsed.ok THEN RepairAndMerge(parsed.val)
                       ELSE InvalidJson(raw, stripped),
             raw_output |-> raw, json_string |-> stripped,
             ai_json |-> parsed,
             steps |-> { "empty_check", "fence_strip", "json_loads" }
                          \cup (IF parsed.ok THEN { "shape_repair" } ELSE {})]

---------------------------------------------------------------------------
(* The handler.                                                            *)

Init ==
    /\ client \in BOOLEAN
    /\ pc = "idle"
    /\ request = NoRequest
    /\ data = "not_read"
    /\ user_message = NoBudget
    /\ gatewayCalls = 0
    /\ response = NoResponse
    /\ raw_output = <<>>
    /\ json_string = <<>>
    /\ ai_json = NoParse
    /\ trail = {}
    /\ reply = NoReply

\* Line 43: not client.
ClientMissingNever(c) == FALSE

ClientMissing(c) == ~c

\* The handler ends with reply r before it reaches the gateway.
EndEarly(r, read, steps) ==
    /\ pc' = "done"
    /\ data' = read
    /\ trail' = steps
    /\ reply' = r
    /\ UNCHANGED << user_message, gatewayCalls >>

\* Lines 41-124, to the call of the gateway: the credential check, the
\* request body, the duration and the phase budget.
GenerateBegin(req) ==
    /\ pc = "idle"
    /\ request' = req
    /\ UNCHANGED << client, response, raw_output, json_string, ai_json >>
    /\ IF ClientMissing(client)
       THEN EndEarly(CredentialMissing, "not_read", { "credential_check" })
       ELSE
         LET early == { "credential_check", "get_json" } IN
         CASE req.payload = "malformed" ->
                EndEarly(FrameworkRefusal(400), "raised", early)
           [] req.payload = "absent" ->
                EndEarly(FrameworkRefusal(415), "raised", early)
           [] req.payload = "null" ->
                EndEarly(InternalServerError, "none", early)
           [] OTHER ->
                LET total_duration == CoerceDuration(req.duration) IN
                IF ~total_duration.ok
                THEN EndEarly(InternalServerError, "dict", early)
                ELSE /\ pc' = "waiting"
                     /\ data' = "dict"
                     /\ user_message' = PhaseBudget(total_duration.n)
                     /\ gatewayCalls' = gatewayCalls + 1
                     /\ trail' = early \cup { "budget", "gateway_call" }
                     /\ reply' = NoReply

\* Lines 115-182: the call comes back, returning r or raising, and the
\* handler runs on to its reply, normalising what the gateway gave.  The
\* locals of lines 46-112 stay as they are.
GenerateEnd(r) ==
    /\ pc = "waiting"
    /\ response' = r
    /\ LET n == Normalize(r) IN
        /\ reply' = n.reply
        /\ raw_output' = n.raw_output
        /\ json_string' = n.json_string
        /\ ai_json' = n.ai_json
        /\ trail' = trail \cup n.steps
    /\ pc' = "done"
    /\ UNCHANGED << client, request, data, user_message, gatewayCalls >>

\* The reply is sent: nothing of the request is kept.
Respond ==
    /\ pc = "done"
    /\ pc' = "idle"
    /\ request' = NoRequest
    /\ data' = "not_read"
    /\ user_message' = NoBudget
    /\ gatewayCalls' = 0
    /\ response' = NoResponse
    /\ raw_output' = <<>>
    /\ json_string' = <<>>
    /\ ai_json' = NoParse
    /\ trail' = {}
    /\ reply' = NoReply
    /\ UNCHANGED client

\* A request arrives and is handled up to the gateway.
Begin == pc = "idle" /\ \E req \in Requests : GenerateBegin(req)

\* The gateway gives one of its answers and the handler finishes.
Return ==
    pc = "waiting" /\ \E r \in GatewayResponses : GenerateEnd(r)

Next == Begin \/ Return \/ Respond

Spec == Init /\ [][Next]_vars

\* A reply that is ready is sent; nothing makes the gateway answer, which
\* is called with no timeout.
FairSpec == Spec /\ WF_vars(Respond)

---------------------------------------------------------------------------
(* The claims.                                                             *)

Done == pc = "done"

\* The request ended after json.loads gave a dict.
ParsedDict == Done /\ ai_json.ok /\ ai_json.val.t = "dict"

\* The text of a string, or of a list of strings joined by newlines.
IsText(x) == x.t = "str" \/ (x.t = "list" /\ AllStr(x.v))
TextOf(x) == IF x.t = "list" THEN JoinLines(x.v) ELSE x.v

\* Key k went from the parsed object d to the body out: there when it was,
\* with the text it had.
PassedThrough(d, out, k) ==
    /\ (k \in DOMAIN out) = (k \in DOMAIN d)
    /\ k \in DOMAIN d => out[k] = Str(TextOf(d[k]))

\* C1, as stated: for every parsed model object in which phase2 is a string
\* or a list of strings and assessment is a non-empty string or list of
\* strings, the 200 body has no assessment key and its phase2 is the
\* newline-joined phase2, the delimiter and the newline-joined assessment,
\* with phase1 and phase3 passed through.
C1_MergeAsStated ==
    ParsedDict =>
        LET d == ai_json.val.v IN
        ( /\ KPhase2 \in DOMAIN d /\ IsText(d[KPhase2])
          /\ KAssessment \in DOMAIN d /\ IsText(d[KAssessment])
          /\ d[KAssessment].v # <<>> )
        => /\ reply.status = 200
           /\ KAssessment \notin DOMAIN reply.json.v
           /\ reply.json.v[KPhase2] =
                Str(TextOf(d[KPhase2]) \o Delimiter \o TextOf(d[KAssessment]))
           /\ PassedThrough(d, reply.json.v, KPhase1)
           /\ PassedThrough(d, reply.json.v, KPhase3)

\* C1, amended: for every parsed model object in which phase2 is a string
\* or a list of strings, assessment is a string or a list of strings whose
\* newline-joined text is not empty, and phase1 and phase3 are each absent,
\* a string or a list of strings, the 200 body has no assessment key and
\* its phase2 is the newline-joined phase2 stripped of surrounding
\* whitespace, the delimiter, and the newline-joined assessment stripped of
\* surrounding whitespace; phase1 and phase3 are passed through, a list
\* joined by newlines.
C1_MergeStripped ==
    ParsedDict =>
        LET d == ai_json.val.v IN
        ( /\ KPhase2 \in DOMAIN d /\ IsText(d[KPhase2])
          /\ KAssessment \in DOMAIN d /\ IsText(d[KAssessment])
          /\ TextOf(d[KAssessment]) # <<>>
          /\ \A k \in { KPhase1, KPhase3 } : k \in DOMAIN d => IsText(d[k]) )
        => /\ reply.status = 200
           /\ KAssessment \notin DOMAIN reply.json.v
           /\ reply.json.v[KPhase2] =
                Str(Strip(TextOf(d[KPhase2])) \o
                    << "\n", "\n", "\n", "*", "*", "A", "S", "S", "E", "S",
                       "S", "M", "E", "N", "T", "*", "*", "\n", "\n" >> \o
                    Strip(TextOf(d[KAssessment])))
           /\ PassedThrough(d, reply.json.v, KPhase1)
           /\ PassedThrough(d, reply.json.v, KPhase3)

\* C1's case: a two-element phase2 list and an assessment with whitespace
\* to strip were merged into a 200 body.
C1_Witness ==
    /\ ParsedDict
    /\ KPhase2 \in DOMAIN ai_json.val.v
    /\ KAssessment \in DOMAIN ai_json.val.v
    /\ KPhase1 \in DOMAIN ai_json.val.v
    /\ ai_json.val.v[KPhase2] = List(<< Str(<< "a" >>), Str(<< "a" >>) >>)
    /\ ai_json.val.v[KAssessment] = Str(<< " ", "a" >>)
    /\ reply.status = 200
    /\ reply.json.v[KPhase2] = Str(<< "a", "\n", "a" >> \o Delimiter \o << "a" >>)

\* C2, for the keys the merge leaves in the body: every 200 response holds
\* phase1, phase2 and phase3 (the assessment is in phase2, under its
\* header, when the model gave one).
C2_PhaseKeysPresent ==
    (Done /\ reply.status = 200) =>
        { KPhase1, KPhase2, KPhase3 } \subseteq DOMAIN reply.json.v

\* C3: for every integer duration > 0 the prompt's phase1 and phase3 are
\* min(10, floor(0.15 * duration)) each, phase2 is the rest, and the three
\* add up to the duration.
C3_PhaseBudget ==
    pc = "waiting" =>
        LET duration == CoerceDuration(request.duration).n
            share == (15 * duration) \div 100
            capped == IF share < 10 THEN share ELSE 10
        IN  duration > 0 =>
              /\ user_message.phase1 = capped
              /\ user_message.phase3 = capped
              /\ user_message.phase2 = duration - capped - capped
              /\ user_message.phase1 + user_message.phase2
                    + user_message.phase3 = duration

\* C3's case: the 40 minutes of the smoke test are split 6, 28, 6.
C3_Witness ==
    /\ pc = "waiting"
    /\ request.duration = DurInt(40)
    /\ user_message = [phase1 |-> 6, phase2 |-> 28, phase3 |-> 6]

\* The gateway returned, with text that is empty or absent.
GaveNoText ==
    Done /\ response.outcome = "returned"
         /\ (~response.has \/ response.text = <<>>)

\* C4: when the gateway returns with empty or absent text the request ends
\* with 400 and the finish reason of the first candidate (UNKNOWN without
\* candidates), and neither the fence stripping nor json.loads was run.
C4_BlockedOrEmpty ==
    GaveNoText =>
        /\ reply.status = 400
        /\ reply.kind = "BlockedOrEmpty"
        /\ reply.details = IF response.candidates = <<>> THEN "UNKNOWN"
                           ELSE response.candidates[1]
        /\ trail \cap { "fence_strip", "json_loads", "shape_repair" } = {}
        /\ ~ai_json.ok

\* C4's case: an empty text with finish reason SAFETY was answered 400.
C4_Witness ==
    /\ GaveNoText
    /\ response.has
    /\ response.candidates = << "SAFETY" >>
    /\ reply.status = 400
    /\ reply.details = "SAFETY"

\* json.loads ran on non-empty text and refused it.
RefusedJson ==
    Done /\ "json_loads" \in trail /\ json_string # <<>> /\ ~ai_json.ok

\* C5, as stated: when the fence-stripped text is non-empty and no valid
\* JSON, the request ends with 500 and the body carries the original raw
\* model text under content.
C5_OriginalText ==
    RefusedJson =>
        /\ reply.status = 500
        /\ reply.kind = "InvalidJson"
        /\ reply.content = response.text

\* C5, amended: when the fence-stripped text is non-empty and no valid
\* JSON, the request ends with 500 and the body carries under content the
\* raw model text with its surrounding whitespace stripped (the fence
\* still on it); no 200 is produced.
C5_TrimmedText ==
    RefusedJson =>
        /\ reply.status = 500
        /\ reply.kind = "InvalidJson"
        /\ reply.content = Strip(response.text)
        /\ reply.content # <<>>

\* C5's case: fenced text that is no JSON was answered 500 with the fence
\* still in the content.
C5_Witness ==
    /\ RefusedJson
    /\ reply.status = 500
    /\ StartsWith(reply.content, FenceOpener)
    /\ reply.content # json_string

\* C6: when the model returns well-formed JSON whose phase2 is empty or
\* absent, the request ends with 500 and never with 200, whatever the
\* other keys hold.
C6_EmptyPhase2Is500 ==
    ParsedDict =>
        LET d == ai_json.val.v IN
        (KPhase2 \notin DOMAIN d \/ d[KPhase2] \in { Str(<<>>), List(<<>>) })
        => reply.status = 500

\* The request's payload is absent, or its duration is no positive integer.
BadInput ==
    \/ request.payload \in { "absent", "malformed", "null" }
    \/ /\ request.payload = "object"
       /\ ~(CoerceDuration(request.duration).ok
              /\ CoerceDuration(request.duration).n > 0)

\* C7: a request whose payload is absent or whose duration does not coerce
\* to a positive integer ends with a client error (a 4xx status), and the
\* gateway is never called for it.
C7_ClientError ==
    (client /\ BadInput) =>
        /\ gatewayCalls = 0
        /\ Done => reply.status \in 400..499

\* C8: with no client built at startup every request ends with 500 before
\* the body is read and without a call of the gateway.
C8_CredentialFirst ==
    ~client =>
        /\ gatewayCalls = 0
        /\ data = "not_read"
        /\ "get_json" \notin trail
        /\ pc \in { "idle", "done" }
        /\ Done => (reply.status = 500 /\ reply.kind = "CredentialMissing")

\* C8's case: a well-formed request was answered 500 with no client.
C8_Witness ==
    /\ ~client
    /\ Done
    /\ request = [payload |-> "object", duration |-> DurInt(40)]
    /\ reply.status = 500

\* C9: every request that reaches the gateway eventually ends in a
\* response: the wait for the gateway is bounded, and a gateway that does
\* not answer makes the request end with a server error.
C9_GatewayWaitEnds == (pc = "waiting") ~> Done

\* C10: fenced text (opener at the start, closer at the end) goes to the
\* parser as exactly the characters between the two delimiters, outer
\* whitespace trimmed; any other text goes to it unchanged.
C10_FencePrefixSuffix ==
    (Done /\ "fence_strip" \in trail) =>
        IF StartsWith(raw_output, FenceOpener)
              /\ EndsWith(raw_output, FenceCloser)
        THEN json_string =
                Strip(SubSeq(raw_output, Len(FenceOpener) + 1,
                             Len(raw_output) - Len(FenceCloser)))
        ELSE json_string = raw_output

=============================================================================
